---- MODULE Spec2Model ----
(***************************************************************************)
(* Model of vectoria.py (class MultiSiteVectorDB): the frontier-driven     *)
(* crawler, the link filter, the source registry with its index-record     *)
(* table and the two JSON files it rewrites, the ingest of documents into  *)
(* the collection by indexar_fuente and indexar_todas_fuentes, and the     *)
(* text cleaner _limpiar_texto.                                            *)
(*                                                                         *)
(* Text is modelled as a sequence of tokens: "https://h1/a" is the         *)
(* sequence <<"https", ":", "//", "h1", "/a">>.  urlparse, urljoin and the *)
(* fragment split work on the tokens the way the library works on the      *)
(* characters, so a host name handed to urlparse as if it were a URL is    *)
(* parsed as a path, as it is in Python.                                   *)
(***************************************************************************)
EXTENDS Integers, Sequences, FiniteSets, TLC

VARIABLES url_inicio, max_paginas, to_visit, visited, results, pc, web, traza,
          sources, indexados, sources_file, indexados_file, now, fallos, ret,
          hash_seed, collection, ingesta, todas,
          texto, original, pasadas, filtro, hilos, archivos, caidas

crawlVars == <<url_inicio, max_paginas, to_visit, visited, results, pc, web, traza>>
regVars == <<sources, indexados, sources_file, indexados_file, now, fallos, ret>>
ingestVars == <<hash_seed, collection, ingesta, todas>>
textVars == <<texto, original, pasadas>>
filtroVars == <<filtro>>
hilosVars == <<hilos, archivos, caidas>>
vars == <<url_inicio, max_paginas, to_visit, visited, results, pc, web, traza,
          sources, indexados, sources_file, indexados_file, now, fallos, ret,
          hash_seed, collection, ingesta, todas,
          texto, original, pasadas, filtro, hilos, archivos, caidas>>

(***************************************************************************)
(* Bounds of the model.                                                    *)
(***************************************************************************)
MaxPaginas == 2
MaxReloj == 1
MaxFuentes == 3
MaxFallos == 1
MaxSemilla == 1
MaxDocs == 201
MaxColeccion == 203
MaxLen == 3
MaxPasadas == 2
MaxRuta == 3
MaxCaidas == 1

(***************************************************************************)
(* Program constants.                                                      *)
(***************************************************************************)
MinWords == 20
batch_size == 100
Profundidad == 10

(***************************************************************************)
(* Text tokens and the URLs of the model.                                  *)
(***************************************************************************)
SchemeTokens == {"https"}
HostTokens == {"h1", "h2"}
FragmentTokens == {"#f"}
ExtensionTokens == {".pdf", ".jpg", ".png", ".zip", ".exe", ".dmg"}

A == <<"https", ":", "//", "h1", "/a">>
B == <<"https", ":", "//", "h1", "/b">>
C == <<"https", ":", "//", "h1", "/c">>
D == <<"https", ":", "//", "h2", "/d">>
NoScheme == <<"h1", "/a">>
NoHost == <<"https", ":", "/a">>
EmptyHost == <<"https", ":", "//", "/a">>

Range(s) == {s[i] : i \in 1..Len(s)}

\* urllib.parse.urlparse: the scheme is what precedes the first ":", the
\* netloc exists only when the rest starts with "//", the rest is the path.
urlparse(s) ==
    LET hasScheme == Len(s) >= 2 /\ s[1] \in SchemeTokens /\ s[2] = ":"
        r1 == IF hasScheme THEN SubSeq(s, 3, Len(s)) ELSE s
        hasNet == Len(r1) >= 1 /\ r1[1] = "//"
        net == IF hasNet /\ Len(r1) >= 2 /\ r1[2] \in HostTokens
               THEN <<r1[2]>> ELSE <<>>
        r2 == IF hasNet THEN SubSeq(r1, 2 + Len(net), Len(r1)) ELSE r1
    IN [scheme |-> IF hasScheme THEN <<s[1]>> ELSE <<>>,
        netloc |-> net,
        path |-> r2]

\* urllib.parse.urljoin for the hrefs of the model: an href with a scheme is
\* absolute, an empty href is the page itself, a rooted path replaces the path.
urljoin(base, href) ==
    IF urlparse(href).scheme # <<>> THEN href
    ELSE IF href = <<>> THEN base
    ELSE <<urlparse(base).scheme[1], ":", "//", urlparse(base).netloc[1]>> \o href

\* href.split('#')[0]
SplitFragment(href) ==
    IF \E i \in 1..Len(href) : href[i] \in FragmentTokens
    THEN SubSeq(href, 1, (CHOOSE i \in 1..Len(href) :
                            /\ href[i] \in FragmentTokens
                            /\ \A j \in 1..(i - 1) : href[j] \notin FragmentTokens) - 1)
    ELSE href

\* _es_url_valida(url, dominio_base)
_es_url_valida(url, dominio_base) ==
    LET parsed == urlparse(url) IN
    IF parsed.scheme = <<>> \/ parsed.netloc = <<>> THEN FALSE
    ELSE IF parsed.netloc # urlparse(dominio_base).netloc THEN FALSE
    ELSE IF Range(url) \cap ExtensionTokens # {} THEN FALSE
    ELSE TRUE

\* _procesar_enlaces(url, soup, dominio_base); hrefs are the page's anchors
_procesar_enlaces(url, hrefs, dominio_base) ==
    {full_url \in {urljoin(url, SplitFragment(h)) : h \in hrefs} :
        _es_url_valida(full_url, dominio_base)}

(***************************************************************************)
(* Pages as the crawler sees them: whether the GET succeeded, whether a    *)
(* content container or body exists, the number of words of the cleaned    *)
(* main content, and the hrefs of the anchors.                             *)
(***************************************************************************)
Hrefs == {A, B, C, D, <<"/c", "#f">>}
WordCounts == {0, MinWords - 1, MinWords}
FailedFetch == [ok |-> FALSE, body |-> FALSE, words |-> 0, hrefs |-> {}]
Responses ==
    {FailedFetch}
    \cup {[ok |-> TRUE, body |-> FALSE, words |-> 0, hrefs |-> h] : h \in SUBSET Hrefs}
    \cup {[ok |-> TRUE, body |-> TRUE, words |-> w, hrefs |-> h] :
            w \in WordCounts, h \in SUBSET Hrefs}

\* Mutant of extraer_pagina_individual: the minimum word count is not checked.
extraer_sin_minimo(url, page) ==
    IF ~page.ok THEN <<>>
    ELSE IF ~page.body \/ page.words = 0 THEN <<>>
    ELSE <<[url |-> url, words |-> page.words]>>

\* Mutant of extraer_pagina_individual: a page of exactly the minimum number
\* of words is rejected.
extraer_umbral_estricto(url, page) ==
    IF ~page.ok THEN <<>>
    ELSE IF ~page.body \/ page.words = 0 \/ page.words <= MinWords THEN <<>>
    ELSE <<[url |-> url, words |-> page.words]>>

\* extraer_pagina_individual(url): <<>> for None, else the one page record
extraer_pagina_individual(url, page) ==
    IF ~page.ok THEN <<>>
    ELSE IF ~page.body \/ page.words = 0 \/ page.words < MinWords THEN <<>>
    ELSE <<[url |-> url, words |-> page.words]>>

\* Mutant of LoopCond: max_paginas = 0 is a budget of no page at all.
LoopCondSinIlimitado(st, max) ==
    st.to_visit # {} /\ Len(st.results) < max

\* the condition of the while loop of rastrear_sitio_web
LoopCond(st, max) ==
    st.to_visit # {} /\ (max = 0 \/ Len(st.results) < max)

\* Mutant of Iteracion: results.append(page_data) is executed twice.
IteracionAppendTwice(st, current_url, page, max, inicio) ==
    LET dominio_base == urlparse(inicio).netloc
        rest == st.to_visit \ {current_url}
    IN  IF current_url \in st.visited
        THEN [st EXCEPT !.to_visit = rest]
        ELSE LET vis == st.visited \cup {current_url}
                 page_data == extraer_pagina_individual(current_url, page)
                 res == st.results \o page_data \o page_data
                 new_links ==
                    IF /\ page_data # <<>>
                       /\ (max = 0 \/ Len(res) < max)
                       /\ page.ok
                    THEN _procesar_enlaces(current_url, page.hrefs, dominio_base)
                    ELSE {}
             IN [to_visit |-> rest \cup (new_links \ vis),
                 visited |-> vis,
                 results |-> res]

\* Mutant of Iteracion: the URL is read from the frontier without being
\* removed from it (next(iter(to_visit)) in place of to_visit.pop()).
IteracionPeek(st, current_url, page, max, inicio) ==
    LET dominio_base == urlparse(inicio).netloc
        rest == st.to_visit
    IN  IF current_url \in st.visited
        THEN [st EXCEPT !.to_visit = rest]
        ELSE LET vis == st.visited \cup {current_url}
                 page_data == extraer_pagina_individual(current_url, page)
                 res == st.results \o page_data
                 new_links ==
                    IF /\ page_data # <<>>
                       /\ (max = 0 \/ Len(res) < max)
                       /\ page.ok
                    THEN _procesar_enlaces(current_url, page.hrefs, dominio_base)
                    ELSE {}
             IN [to_visit |-> rest \cup (new_links \ vis),
                 visited |-> vis,
                 results |-> res]

\* Mutant of Iteracion: a URL is added to visited only once its page has
\* been extracted.
IteracionSinMarcar(st, current_url, page, max, inicio) ==
    LET dominio_base == urlparse(inicio).netloc
        rest == st.to_visit \ {current_url}
    IN  IF current_url \in st.visited
        THEN [st EXCEPT !.to_visit = rest]
        ELSE LET page_data == extraer_pagina_individual(current_url, page)
                 vis == IF page_data # <<>> THEN st.visited \cup {current_url}
                        ELSE st.visited
                 res == st.results \o page_data
                 new_links ==
                    IF /\ page_data # <<>>
                       /\ (max = 0 \/ Len(res) < max)
                       /\ page.ok
                    THEN _procesar_enlaces(current_url, page.hrefs, dominio_base)
                    ELSE {}
             IN [to_visit |-> rest \cup (new_links \ vis),
                 visited |-> vis,
                 results |-> res]

\* Mutant of Iteracion: a URL whose extraction gave nothing goes back to the
\* frontier to be tried again.
IteracionReencola(st, current_url, page, max, inicio) ==
    LET dominio_base == urlparse(inicio).netloc
        rest == st.to_visit \ {current_url}
    IN  IF current_url \in st.visited
        THEN [st EXCEPT !.to_visit = rest]
        ELSE LET vis == st.visited \cup {current_url}
                 page_data == extraer_pagina_individual(current_url, page)
                 res == st.results \o page_data
                 new_links ==
                    IF /\ page_data # <<>>
                       /\ (max = 0 \/ Len(res) < max)
                       /\ page.ok
                    THEN _procesar_enlaces(current_url, page.hrefs, dominio_base)
                    ELSE {}
             IN [to_visit |-> rest \cup (new_links \ vis)
                                  \cup (IF page_data = <<>> THEN {current_url} ELSE {}),
                 visited |-> vis,
                 results |-> res]

\* one pass of the body of the while loop, current_url being the popped URL
Iteracion(st, current_url, page, max, inicio) ==
    LET dominio_base == urlparse(inicio).netloc
        rest == st.to_visit \ {current_url}
    IN  IF current_url \in st.visited
        THEN [st EXCEPT !.to_visit = rest]
        ELSE LET vis == st.visited \cup {current_url}
                 page_data == extraer_pagina_individual(current_url, page)
                 res == st.results \o page_data
                 new_links ==
                    IF /\ page_data # <<>>
                       /\ (max = 0 \/ Len(res) < max)
                       /\ page.ok
                    THEN _procesar_enlaces(current_url, page.hrefs, dominio_base)
                    ELSE {}
             IN [to_visit |-> rest \cup (new_links \ vis),
                 visited |-> vis,
                 results |-> res]

\* what the crawler does towards the site
Get(url) == [tipo |-> "GET", url |-> url]
Sleep == [tipo |-> "SLEEP", url |-> <<>>]

\* the variant of Eventos whose second request does not look at the budget
EventosSinPresupuesto(st, current_url, page, max) ==
    IF current_url \in st.visited
    THEN <<>>
    ELSE LET page_data == extraer_pagina_individual(current_url, page)
         IN <<Get(current_url)>>
              \o (IF page_data # <<>> THEN <<Get(current_url)>> ELSE <<>>)
              \o <<Sleep>>

\* the requests and sleeps of one pass of the body of the while loop: the GET
\* of extraer_pagina_individual, the GET of _obtener_contenido for the links,
\* time.sleep at the end of the pass
Eventos(st, current_url, page, max) ==
    IF current_url \in st.visited
    THEN <<>>
    ELSE LET page_data == extraer_pagina_individual(current_url, page)
             res == st.results \o page_data
         IN <<Get(current_url)>>
              \o (IF page_data # <<>> /\ (max = 0 \/ Len(res) < max)
                  THEN <<Get(current_url)>> ELSE <<>>)
              \o <<Sleep>>

CrawlSt == [to_visit |-> to_visit, visited |-> visited, results |-> results]

(***************************************************************************)
(* The crawl as a state machine: rastrear_sitio_web(url_inicio,            *)
(* max_paginas).  web holds the pages the site has served so far; a URL    *)
(* fetched again is served the same page.                                  *)
(***************************************************************************)
Seeds == {A, D}

\* no call of agregar_a_base_vectorial has been made
SinIngesta == [documentos |-> <<>>, calls |-> <<>>, excepcion |-> FALSE]

\* no text is being cleaned
TextInit ==
    /\ texto = <<>>
    /\ original = <<>>
    /\ pasadas = 0

\* _es_url_valida has not been called
FiltroInit ==
    filtro = [url |-> <<>>, dominio_base |-> <<>>, hecho |-> FALSE, valida |-> FALSE]

\* the threads that call into the shared instance
Hilos == {1, 2}

SinFuente ==
    [url |-> <<>>, nombre |-> "", descripcion |-> "", categoria |-> "",
     fecha_agregada |-> "", estado |-> "", idioma |-> ""]

\* a thread that is not inside a call
HiloLibre ==
    [pc |-> "idle", op |-> "", url |-> <<>>, antes |-> <<>>, i |-> 0,
     fd |-> 0, k |-> 0, exito |-> FALSE]

\* the files are not looked at write by write
SinArchivos == [inodos |-> <<>>, tmp |-> 0, fuentes |-> 0]

\* no thread is calling
HilosInit ==
    /\ hilos = [t \in Hilos |-> HiloLibre]
    /\ archivos = SinArchivos
    /\ caidas = 0

\* indexar_todas_fuentes is not running
SinTodas == [estado |-> "idle", N |-> 0, pendientes |-> <<>>,
             total_fuentes |-> 0, exitosas |-> 0, fallidas |-> 0,
             total_documentos |-> 0]

\* the collection is new and empty, the interpreter has drawn its hash secret
IngestInit ==
    /\ hash_seed = 0
    /\ collection = {}
    /\ ingesta = SinIngesta
    /\ todas = SinTodas

RegInit ==
    /\ sources = <<>>
    /\ indexados = <<>>
    /\ sources_file = <<>>
    /\ indexados_file = <<>>
    /\ now = 0
    /\ fallos = 0
    /\ ret = [op |-> "init", url |-> <<>>, exito |-> TRUE, mensaje |-> ""]

InitCrawl ==
    /\ url_inicio \in Seeds
    /\ max_paginas \in 0..MaxPaginas
    /\ to_visit = {url_inicio}
    /\ visited = {}
    /\ results = <<>>
    /\ pc = "loop"
    /\ web = <<>>
    /\ traza = <<>>
    /\ RegInit
    /\ IngestInit
    /\ TextInit
    /\ FiltroInit
    /\ HilosInit

CrawlStep ==
    /\ pc = "loop"
    /\ LoopCond(CrawlSt, max_paginas)
    /\ \E current_url \in to_visit :
         \E page \in (IF current_url \in DOMAIN web THEN {web[current_url]}
                      ELSE Responses) :
            LET st == Iteracion(CrawlSt, current_url, page, max_paginas, url_inicio)
            IN /\ to_visit' = st.to_visit
               /\ visited' = st.visited
               /\ results' = st.results
               /\ web' = IF current_url \in visited \/ current_url \in DOMAIN web
                         THEN web ELSE (current_url :> page) @@ web
               /\ traza' = traza \o Eventos(CrawlSt, current_url, page, max_paginas)
    /\ UNCHANGED <<url_inicio, max_paginas, pc>>
    /\ UNCHANGED regVars
    /\ UNCHANGED ingestVars
    /\ UNCHANGED textVars
    /\ UNCHANGED filtroVars
    /\ UNCHANGED hilosVars

CrawlReturn ==
    /\ pc = "loop"
    /\ ~LoopCond(CrawlSt, max_paginas)
    /\ pc' = "done"
    /\ UNCHANGED <<url_inicio, max_paginas, to_visit, visited, results, web, traza>>
    /\ UNCHANGED regVars
    /\ UNCHANGED ingestVars
    /\ UNCHANGED textVars
    /\ UNCHANGED filtroVars
    /\ UNCHANGED hilosVars

NextCrawl == CrawlStep \/ CrawlReturn

SpecCrawl == InitCrawl /\ [][NextCrawl]_vars

SpecCrawlFair == SpecCrawl /\ WF_vars(CrawlStep) /\ WF_vars(CrawlReturn)

(***************************************************************************)
(* rastrear_sitio_web as a function of a whole site: the set of result     *)
(* lists the loop can return, one for every order of the pops.             *)
(***************************************************************************)
PageOf(site, u) == IF u \in DOMAIN site THEN site[u] ELSE FailedFetch

RECURSIVE CrawlRuns(_, _, _, _)
CrawlRuns(st, site, max, inicio) ==
    IF ~LoopCond(st, max) THEN {st.results}
    ELSE UNION {CrawlRuns(Iteracion(st, u, PageOf(site, u), max, inicio),
                          site, max, inicio) : u \in st.to_visit}

rastrear_sitio_web(site, inicio, max) ==
    CrawlRuns([to_visit |-> {inicio}, visited |-> {}, results |-> <<>>],
              site, max, inicio)

GoodPage(h) == [ok |-> TRUE, body |-> TRUE, words |-> MinWords, hrefs |-> h]
ShortPage(h) == [ok |-> TRUE, body |-> TRUE, words |-> MinWords - 1, hrefs |-> h]

\* The sites indexar_fuente is run against: one whose pages all have enough
\* words, one whose pages are all too short, one that is down.
SitioCompleto == (A :> GoodPage({B, C, D})) @@ (B :> GoodPage({A})) @@
                 (C :> GoodPage({})) @@ (D :> GoodPage({}))
SitioCorto == (A :> ShortPage({B})) @@ (B :> ShortPage({})) @@
              (C :> ShortPage({})) @@ (D :> ShortPage({}))
SitioCaido == [u \in {A, B, C, D} |-> FailedFetch]
Sitios == {SitioCompleto, SitioCorto, SitioCaido}

(***************************************************************************)
(* The source registry (self.sources, fuentes.json) and the index-record   *)
(* table (self.indexados, indexados.json).  A dict is a function; a JSON   *)
(* file is the value last written to it.                                   *)
(***************************************************************************)
campos_permitidos == {"nombre", "descripcion", "categoria", "estado", "idioma"}

Fuente(url, nombre) ==
    [url |-> url, nombre |-> nombre, descripcion |-> "", categoria |-> "General",
     fecha_agregada |-> "hoy", estado |-> "activo", idioma |-> "es"]

Ret(op, url, exito, mensaje) ==
    [op |-> op, url |-> url, exito |-> exito, mensaje |-> mensaje]

HasUrl(S, url) == \E i \in 1..Len(S) : S[i].url = url
FirstIndex(S, url) == CHOOSE i \in 1..Len(S) :
                        S[i].url = url /\ \A j \in 1..(i - 1) : S[j].url # url
RemoveAt(S, i) == SubSeq(S, 1, i - 1) \o SubSeq(S, i + 1, Len(S))
DelKey(I, k) == [u \in DOMAIN I \ {k} |-> I[u]]
SetKey(I, k, v) == [u \in DOMAIN I \cup {k} |-> IF u = k THEN v ELSE I[u]]

\* Mutant of agregar_fuente: the search for an existing source is missing.
agregar_fuente_sin_busqueda(S, url, nombre) ==
    LET parsed_url == urlparse(url) IN
    IF parsed_url.scheme = <<>> \/ parsed_url.netloc = <<>>
    THEN [sources |-> S, guardar |-> FALSE,
          ret |-> Ret("agregar_fuente", url, FALSE, "URL invalida")]
    ELSE [sources |-> Append(S, Fuente(url, nombre)), guardar |-> TRUE,
          ret |-> Ret("agregar_fuente", url, TRUE, "Fuente agregada exitosamente")]

\* Mutant of agregar_fuente: only the scheme of the URL is validated.
agregar_fuente_sin_host(S, url, nombre) ==
    LET parsed_url == urlparse(url) IN
    IF parsed_url.scheme = <<>>
    THEN [sources |-> S, guardar |-> FALSE,
          ret |-> Ret("agregar_fuente", url, FALSE, "URL invalida")]
    ELSE IF HasUrl(S, url)
    THEN [sources |-> S, guardar |-> FALSE,
          ret |-> Ret("agregar_fuente", url, FALSE, "La fuente ya existe")]
    ELSE [sources |-> Append(S, Fuente(url, nombre)), guardar |-> TRUE,
          ret |-> Ret("agregar_fuente", url, TRUE, "Fuente agregada exitosamente")]

\* agregar_fuente(url, nombre): the new list, whether _guardar_fuentes is
\* called, and the outcome returned
agregar_fuente(S, url, nombre) ==
    LET parsed_url == urlparse(url) IN
    IF parsed_url.scheme = <<>> \/ parsed_url.netloc = <<>>
    THEN [sources |-> S, guardar |-> FALSE,
          ret |-> Ret("agregar_fuente", url, FALSE, "URL invalida")]
    ELSE IF HasUrl(S, url)
    THEN [sources |-> S, guardar |-> FALSE,
          ret |-> Ret("agregar_fuente", url, FALSE, "La fuente ya existe")]
    ELSE [sources |-> Append(S, Fuente(url, nombre)), guardar |-> TRUE,
          ret |-> Ret("agregar_fuente", url, TRUE, "Fuente agregada exitosamente")]

\* eliminar_fuente(url): the first source with that URL is popped and saved;
\* its entry in indexados, if any, is deleted and saved
eliminar_fuente(S, I, url) ==
    IF HasUrl(S, url)
    THEN [sources |-> RemoveAt(S, FirstIndex(S, url)), guardar |-> TRUE,
          indexados |-> IF url \in DOMAIN I THEN DelKey(I, url) ELSE I,
          guardar_indexados |-> url \in DOMAIN I,
          ret |-> Ret("eliminar_fuente", url, TRUE, "Fuente eliminada exitosamente")]
    ELSE [sources |-> S, guardar |-> FALSE,
          indexados |-> I, guardar_indexados |-> FALSE,
          ret |-> Ret("eliminar_fuente", url, FALSE, "Fuente no encontrada")]

\* Mutant of actualizar_fuente: every keyword argument is written.
actualizar_fuente_sin_filtro(S, url, kwargs) ==
    IF HasUrl(S, url)
    THEN LET i == FirstIndex(S, url)
             campos == DOMAIN kwargs
             fuente == [f \in DOMAIN S[i] \cup campos |->
                          IF f \in campos THEN kwargs[f] ELSE S[i][f]]
         IN [sources |-> [S EXCEPT ![i] = fuente], guardar |-> TRUE,
             ret |-> Ret("actualizar_fuente", url, TRUE, "Fuente actualizada exitosamente")]
    ELSE [sources |-> S, guardar |-> FALSE,
          ret |-> Ret("actualizar_fuente", url, FALSE, "Fuente no encontrada")]

\* Mutant of actualizar_fuente: fecha_agregada is among the allowed fields.
actualizar_fuente_con_fecha(S, url, kwargs) ==
    IF HasUrl(S, url)
    THEN LET i == FirstIndex(S, url)
             campos == DOMAIN kwargs \cap (campos_permitidos \cup {"fecha_agregada"})
             fuente == [f \in DOMAIN S[i] \cup campos |->
                          IF f \in campos THEN kwargs[f] ELSE S[i][f]]
         IN [sources |-> [S EXCEPT ![i] = fuente], guardar |-> TRUE,
             ret |-> Ret("actualizar_fuente", url, TRUE, "Fuente actualizada exitosamente")]
    ELSE [sources |-> S, guardar |-> FALSE,
          ret |-> Ret("actualizar_fuente", url, FALSE, "Fuente no encontrada")]

\* actualizar_fuente(url, **kwargs): the allowed fields of the first source
\* with that URL are overwritten, then the list is saved
actualizar_fuente(S, url, kwargs) ==
    IF HasUrl(S, url)
    THEN LET i == FirstIndex(S, url)
             campos == DOMAIN kwargs \cap campos_permitidos
             fuente == [f \in DOMAIN S[i] \cup campos |->
                          IF f \in campos THEN kwargs[f] ELSE S[i][f]]
         IN [sources |-> [S EXCEPT ![i] = fuente], guardar |-> TRUE,
             ret |-> Ret("actualizar_fuente", url, TRUE, "Fuente actualizada exitosamente")]
    ELSE [sources |-> S, guardar |-> FALSE,
          ret |-> Ret("actualizar_fuente", url, FALSE, "Fuente no encontrada")]

(***************************************************************************)
(* agregar_a_base_vectorial and the collection.  hash(s) of a str is keyed *)
(* by a secret the interpreter draws when it starts; a hash value is kept  *)
(* symbolic, as the pair of the secret and the string, so two values are   *)
(* equal only when both are (abs() and collisions could only merge more).  *)
(***************************************************************************)
hash(s, seed) == [secreto |-> seed, str |-> s]

\* doc_id = f"doc_{abs(hash(doc['url']))}"
doc_id(url, seed) == <<"doc_", hash(url, seed)>>

Min(a, b) == IF a < b THEN a ELSE b

\* range(0, len(documentos), batch_size) and documentos[i:i+batch_size]
NumBatches(documentos) == (Len(documentos) + batch_size - 1) \div batch_size
Batch(documentos, k) ==
    SubSeq(documentos, (k - 1) * batch_size + 1, Min(k * batch_size, Len(documentos)))

\* one call of self.collection.add(documents, metadatas, ids) and whether it
\* returned (ok) or raised
AddCall(batch, seed, ok) ==
    [ids |-> [j \in 1..Len(batch) |-> doc_id(batch[j].url, seed)],
     metadatas |-> [j \in 1..Len(batch) |->
                     [url |-> batch[j].url, fuente |-> urlparse(batch[j].url).netloc]],
     ok |-> ok]

\* Mutant of agregar_a_base_vectorial: collection.add is called outside of
\* a try block, so the first batch that fails ends the call.
agregar_sin_try(documentos, seed, fallan) ==
    LET n == NumBatches(documentos)
        ultimo == IF fallan \cap (1..n) = {} THEN n
                  ELSE CHOOSE k \in fallan \cap (1..n) :
                         \A j \in fallan \cap (1..n) : k <= j
    IN [documentos |-> documentos,
        calls |-> [k \in 1..ultimo |->
                    AddCall(Batch(documentos, k), seed, k \notin fallan)],
        excepcion |-> fallan \cap (1..n) # {}]

\* agregar_a_base_vectorial(documentos) in a process whose hash secret is
\* seed, the add of the batches numbered in fallan raising: the calls of add
\* it makes, and whether an exception leaves it
agregar_a_base_vectorial(documentos, seed, fallan) ==
    [documentos |-> documentos,
     calls |-> [k \in 1..NumBatches(documentos) |->
                 AddCall(Batch(documentos, k), seed, k \notin fallan)],
     excepcion |-> FALSE]

\* the collection after the calls: an add that returned has stored its
\* entries, an add that raised has stored nothing
Coleccion(col, calls) ==
    col \cup UNION {{[id |-> calls[k].ids[j], url |-> calls[k].metadatas[j].url] :
                        j \in 1..Len(calls[k].ids)} :
                    k \in {i \in 1..Len(calls) : calls[i].ok}}

\* Mutant of indexar_fuente: the timestamp of a URL already in the table is
\* kept (setdefault in place of the assignment).
indexar_fuente_setdefault(I, url, documentos, t) ==
    IF documentos # <<>>
    THEN [indexados |-> IF url \in DOMAIN I THEN I ELSE SetKey(I, url, t),
          guardar |-> TRUE,
          agregar |-> TRUE,
          ret |-> [op |-> "indexar_fuente", url |-> url, exito |-> TRUE, mensaje |-> "",
                  documentos_indexados |-> Len(documentos)]]
    ELSE [indexados |-> I, guardar |-> FALSE, agregar |-> FALSE,
          ret |-> Ret("indexar_fuente", url, FALSE, "No se pudo indexar el sitio")]

\* Mutant of indexar_fuente: the result of the crawl is not tested, an empty
\* list is ingested and recorded like any other.
indexar_fuente_sin_prueba(I, url, documentos, t) ==
    [indexados |-> SetKey(I, url, t),
     guardar |-> TRUE,
     agregar |-> TRUE,
     ret |-> [op |-> "indexar_fuente", url |-> url, exito |-> TRUE, mensaje |-> "",
                  documentos_indexados |-> Len(documentos)]]

\* indexar_fuente(url, max_paginas) once the crawl has returned documentos at
\* time t: whether agregar_a_base_vectorial(documentos) is called (an error
\* of the collection's add is logged and changes nothing here), the table
\* with its entry set, and whether the table is saved
indexar_fuente(I, url, documentos, t) ==
    IF documentos # <<>>
    THEN [indexados |-> SetKey(I, url, t),
          guardar |-> TRUE,
          agregar |-> TRUE,
          ret |-> [op |-> "indexar_fuente", url |-> url, exito |-> TRUE, mensaje |-> "",
                  documentos_indexados |-> Len(documentos)]]
    ELSE [indexados |-> I, guardar |-> FALSE, agregar |-> FALSE,
          ret |-> Ret("indexar_fuente", url, FALSE, "No se pudo indexar el sitio")]

\* _guardar_fuentes / _guardar_indexados: the file is replaced by the value
\* in memory, or left as it is when the write raises (the error is logged)
Guardar(file, value, called, disk_ok) ==
    IF called /\ disk_ok THEN value ELSE file

\* the number of writes that raised, among those called
Fallidos(called, disk_ok) == IF called /\ ~disk_ok THEN 1 ELSE 0

(***************************************************************************)
(* The registry as a state machine: calls of the public methods, one at a  *)
(* time, on one MultiSiteVectorDB.  fallos counts the file writes that     *)
(* have raised; now is the clock datetime.now() reads.                     *)
(***************************************************************************)
UrlInputs == {A, D, NoScheme, NoHost, EmptyHost}
RegisteredInputs == {A, D}
KwargsInputs == {[nombre |-> "n2", url |-> D, fecha_agregada |-> "ayer",
                  visitas |-> "v"]}
DiskOutcomes == IF fallos < MaxFallos THEN BOOLEAN ELSE {TRUE}

Init ==
    /\ url_inicio = <<>>
    /\ max_paginas = 0
    /\ to_visit = {}
    /\ visited = {}
    /\ results = <<>>
    /\ pc = "idle"
    /\ web = <<>>
    /\ traza = <<>>
    /\ sources \in {<<>>, <<Fuente(A, "n1")>>}
    /\ sources_file = sources
    /\ indexados = <<>>
    /\ indexados_file = indexados
    /\ now = 0
    /\ fallos = 0
    /\ ret = Ret("init", <<>>, TRUE, "")
    /\ IngestInit
    /\ TextInit
    /\ FiltroInit
    /\ HilosInit

AgregarFuente ==
    \E url \in UrlInputs, disk_ok \in DiskOutcomes :
        LET r == agregar_fuente(sources, url, "n1") IN
        /\ Len(r.sources) <= MaxFuentes
        /\ sources' = r.sources
        /\ sources_file' = Guardar(sources_file, r.sources, r.guardar, disk_ok)
        /\ fallos' = fallos + Fallidos(r.guardar, disk_ok)
        /\ ret' = r.ret
        /\ UNCHANGED <<indexados, indexados_file, now>>
        /\ UNCHANGED crawlVars
        /\ UNCHANGED ingestVars
        /\ UNCHANGED textVars
        /\ UNCHANGED filtroVars
        /\ UNCHANGED hilosVars

EliminarFuente ==
    \E url \in RegisteredInputs, disk_ok \in DiskOutcomes :
        LET r == eliminar_fuente(sources, indexados, url) IN
        /\ sources' = r.sources
        /\ sources_file' = Guardar(sources_file, r.sources, r.guardar, disk_ok)
        /\ indexados' = r.indexados
        /\ \E disk_ok2 \in (IF fallos + Fallidos(r.guardar, disk_ok) < MaxFallos
                            THEN BOOLEAN ELSE {TRUE}) :
             /\ indexados_file' =
                  Guardar(indexados_file, r.indexados, r.guardar_indexados, disk_ok2)
             /\ fallos' = fallos + Fallidos(r.guardar, disk_ok)
                                 + Fallidos(r.guardar_indexados, disk_ok2)
        /\ ret' = r.ret
        /\ UNCHANGED now
        /\ UNCHANGED crawlVars
        /\ UNCHANGED ingestVars
        /\ UNCHANGED textVars
        /\ UNCHANGED filtroVars
        /\ UNCHANGED hilosVars

ActualizarFuente ==
    \E url \in RegisteredInputs, kwargs \in KwargsInputs, disk_ok \in DiskOutcomes :
        LET r == actualizar_fuente(sources, url, kwargs) IN
        /\ sources' = r.sources
        /\ sources_file' = Guardar(sources_file, r.sources, r.guardar, disk_ok)
        /\ fallos' = fallos + Fallidos(r.guardar, disk_ok)
        /\ ret' = r.ret
        /\ UNCHANGED <<indexados, indexados_file, now>>
        /\ UNCHANGED crawlVars
        /\ UNCHANGED ingestVars
        /\ UNCHANGED textVars
        /\ UNCHANGED filtroVars
        /\ UNCHANGED hilosVars

IndexarFuente ==
    \E url \in RegisteredInputs, max \in {0, MaxPaginas}, site \in Sitios,
       disk_ok \in DiskOutcomes :
        \E documentos \in rastrear_sitio_web(site, url, max) :
            LET r == indexar_fuente(indexados, url, documentos, now) IN
            /\ indexados' = r.indexados
            /\ indexados_file' = Guardar(indexados_file, r.indexados, r.guardar, disk_ok)
            /\ fallos' = fallos + Fallidos(r.guardar, disk_ok)
            /\ ret' = r.ret
            /\ UNCHANGED <<sources, sources_file, now>>
            /\ UNCHANGED crawlVars
            /\ UNCHANGED ingestVars
            /\ UNCHANGED textVars
            /\ UNCHANGED filtroVars
            /\ UNCHANGED hilosVars

Tick ==
    /\ now < MaxReloj
    /\ now' = now + 1
    /\ UNCHANGED <<sources, sources_file, indexados, indexados_file, fallos, ret>>
    /\ UNCHANGED crawlVars
    /\ UNCHANGED ingestVars
    /\ UNCHANGED textVars
    /\ UNCHANGED filtroVars
    /\ UNCHANGED hilosVars

Next == AgregarFuente \/ EliminarFuente \/ ActualizarFuente \/ IndexarFuente \/ Tick

Spec == Init /\ [][Next]_vars

(***************************************************************************)
(* Indexing as a state machine: calls of indexar_fuente,                   *)
(* indexar_todas_fuentes (one pass of its loop over the active sources per *)
(* step) and agregar_a_base_vectorial on one MultiSiteVectorDB, and        *)
(* restarts of the process.  collection is the persistent Chroma           *)
(* collection; ingesta is the call of agregar_a_base_vectorial made by the *)
(* method call last completed; url_inicio, max_paginas and results are    *)
(* the arguments and the return value of the last call of                  *)
(* rastrear_sitio_web.  The calls of one behaviour are made at one time,   *)
(* now, which is any time of the clock.                                    *)
(***************************************************************************)
Pagina(i) == <<"https", ":", "//", "h1", "/p", ToString(i)>>
Documentos(n) == [i \in 1..n |-> [url |-> Pagina(i), words |-> MinWords]]
DocCounts == {0, 1, batch_size, batch_size + 1, MaxDocs}
PresupuestoInputs == {0, 1}

\* the registry of the indexing runs: two active sources and an inactive one
FuentesIndexadas ==
    actualizar_fuente(<<Fuente(A, "n1"), Fuente(B, "n2"), Fuente(D, "n3")>>,
                      B, [estado |-> "inactivo"]).sources

\* if profundidad is not None: max_paginas = profundidad (<<>> is None)
presupuesto(max, profundidad) ==
    IF profundidad # <<>> THEN profundidad[1] ELSE max

InitIngest ==
    /\ url_inicio = <<>>
    /\ max_paginas = 0
    /\ to_visit = {}
    /\ visited = {}
    /\ results = <<>>
    /\ pc = "idle"
    /\ web = <<>>
    /\ traza = <<>>
    /\ sources = FuentesIndexadas
    /\ sources_file = sources
    /\ indexados = <<>>
    /\ indexados_file = indexados
    /\ now \in 0..MaxReloj
    /\ fallos = 0
    /\ ret = Ret("init", <<>>, TRUE, "")
    /\ IngestInit
    /\ TextInit
    /\ FiltroInit
    /\ HilosInit

\* agregar_a_base_vectorial(documentos), called on its own
AgregarABaseVectorial ==
    /\ todas.estado # "loop"
    /\ \E documentos \in {Documentos(n) : n \in DocCounts} :
         \E fallan \in SUBSET (1..NumBatches(documentos)) :
            LET g == agregar_a_base_vectorial(documentos, hash_seed, fallan) IN
            /\ Cardinality(collection) + Len(documentos) <= MaxColeccion
            /\ ingesta' = g
            /\ collection' = Coleccion(collection, g.calls)
            /\ ret' = Ret("agregar_a_base_vectorial", <<>>, ~g.excepcion, "")
    /\ UNCHANGED <<sources, sources_file, indexados, indexados_file, now, fallos>>
    /\ UNCHANGED <<hash_seed, todas>>
    /\ UNCHANGED crawlVars
    /\ UNCHANGED textVars
    /\ UNCHANGED filtroVars
    /\ UNCHANGED hilosVars

\* indexar_fuente(url, max, profundidad): the crawl, the ingest of its
\* documents, the table entry and the write of the table
Indexar(url, max, profundidad) ==
    \E site \in Sitios, disk_ok \in DiskOutcomes :
      \E documentos \in rastrear_sitio_web(site, url, presupuesto(max, profundidad)) :
        \E fallan \in SUBSET (1..NumBatches(documentos)) :
            LET r == indexar_fuente(indexados, url, documentos, now)
                g == IF r.agregar
                     THEN agregar_a_base_vectorial(documentos, hash_seed, fallan)
                     ELSE SinIngesta
            IN /\ url_inicio' = url
               /\ max_paginas' = presupuesto(max, profundidad)
               /\ results' = documentos
               /\ ingesta' = g
               /\ collection' = Coleccion(collection, g.calls)
               /\ indexados' = r.indexados
               /\ indexados_file' = Guardar(indexados_file, r.indexados, r.guardar, disk_ok)
               /\ fallos' = fallos + Fallidos(r.guardar, disk_ok)
               /\ ret' = r.ret
               /\ UNCHANGED <<to_visit, visited, pc, web, traza>>
               /\ UNCHANGED <<sources, sources_file, now, hash_seed>>
               /\ UNCHANGED textVars
               /\ UNCHANGED filtroVars
               /\ UNCHANGED hilosVars

\* indexar_fuente(url, max_paginas), as the application calls it
IndexarFuenteIngesta ==
    /\ todas.estado # "loop"
    /\ \E url \in RegisteredInputs, max \in PresupuestoInputs :
         Indexar(url, max, <<>>)
    /\ UNCHANGED todas

\* indexar_todas_fuentes(N) up to its loop: the active sources are listed
IndexarTodasFuentes ==
    /\ todas.estado # "loop"
    /\ \E N \in PresupuestoInputs :
         LET fuentes_activas ==
                SelectSeq(sources, LAMBDA f : f.estado = "activo")
         IN todas' = [estado |-> "loop", N |-> N, pendientes |-> fuentes_activas,
                      total_fuentes |-> Len(fuentes_activas), exitosas |-> 0,
                      fallidas |-> 0, total_documentos |-> 0]
    /\ UNCHANGED crawlVars
    /\ UNCHANGED regVars
    /\ UNCHANGED <<hash_seed, collection, ingesta>>
    /\ UNCHANGED textVars
    /\ UNCHANGED filtroVars
    /\ UNCHANGED hilosVars

\* one pass of the loop of indexar_todas_fuentes:
\* self.indexar_fuente(fuente['url'], max_paginas_por_sitio, profundidad=10)
IndexarTodasPaso ==
    /\ todas.estado = "loop"
    /\ todas.pendientes # <<>>
    /\ Indexar(Head(todas.pendientes).url, todas.N, <<Profundidad>>)
    /\ todas' = [todas EXCEPT
                   !.pendientes = Tail(todas.pendientes),
                   !.exitosas = @ + (IF ret'.exito THEN 1 ELSE 0),
                   !.fallidas = @ + (IF ret'.exito THEN 0 ELSE 1),
                   !.total_documentos = @ + (IF ret'.exito THEN Len(results') ELSE 0)]

\* indexar_todas_fuentes returns resultados, which is local to the call
IndexarTodasFin ==
    /\ todas.estado = "loop"
    /\ todas.pendientes = <<>>
    /\ todas' = SinTodas
    /\ ret' = Ret("indexar_todas_fuentes", <<>>, TRUE, "")
    /\ UNCHANGED crawlVars
    /\ UNCHANGED <<sources, sources_file, indexados, indexados_file, now, fallos>>
    /\ UNCHANGED <<hash_seed, collection, ingesta>>
    /\ UNCHANGED textVars
    /\ UNCHANGED filtroVars
    /\ UNCHANGED hilosVars

\* the process ends and a new one starts: the interpreter keeps its hash
\* secret (PYTHONHASHSEED is set) or draws the next one, the registry and the
\* table are loaded from their files, the collection is the one on disk
Reiniciar ==
    /\ todas.estado # "loop"
    /\ hash_seed' \in hash_seed..MaxSemilla
    /\ sources' = sources_file
    /\ indexados' = indexados_file
    /\ ingesta' = SinIngesta
    /\ todas' = SinTodas
    /\ ret' = Ret("init", <<>>, TRUE, "")
    /\ url_inicio' = <<>>
    /\ max_paginas' = 0
    /\ results' = <<>>
    /\ UNCHANGED <<to_visit, visited, pc, web, traza>>
    /\ UNCHANGED <<sources_file, indexados_file, now, fallos, collection>>
    /\ UNCHANGED textVars
    /\ UNCHANGED filtroVars
    /\ UNCHANGED hilosVars

NextIngest ==
    \/ IndexarFuenteIngesta
    \/ IndexarTodasFuentes
    \/ IndexarTodasPaso
    \/ IndexarTodasFin
    \/ Reiniciar

SpecIngest == InitIngest /\ [][NextIngest]_vars

\* agregar_a_base_vectorial on lists of more than one batch
NextLotes == AgregarABaseVectorial

SpecLotes == InitIngest /\ [][NextLotes]_vars

(***************************************************************************)
(* _limpiar_texto.  A text is the sequence of the code points of its       *)
(* characters (195 is U+00C3, 161 is U+00A1, 32 the space, 9 the tab, 0    *)
(* NUL, 160 the no-break space).                                           *)
(***************************************************************************)
\* correcciones.items(): the pairs (mal, bien) in the order of the dict; a
\* key written more than once keeps its first place and its last value
correcciones ==
    <<<<<<195, 161>>, <<225>>>>, <<<<195, 169>>, <<233>>>>,
      <<<<195, 173>>, <<237>>>>, <<<<195, 179>>, <<243>>>>,
      <<<<195, 186>>, <<250>>>>, <<<<195, 177>>, <<241>>>>,
      <<<<195, 188>>, <<252>>>>, <<<<195, 163>>, <<227>>>>,
      <<<<195, 182>>, <<246>>>>, <<<<195, 164>>, <<228>>>>,
      <<<<195, 162>>, <<226>>>>, <<<<195, 187>>, <<251>>>>,
      <<<<195, 174>>, <<238>>>>, <<<<195, 168>>, <<232>>>>,
      <<<<195, 170>>, <<234>>>>, <<<<195, 167>>, <<231>>>>,
      <<<<195, 32>>, <<224>>>>, <<<<195, 180>>, <<244>>>>,
      <<<<195, 185>>, <<249>>>>, <<<<195, 171>>, <<235>>>>,
      <<<<195, 175>>, <<239>>>>, <<<<195, 189>>, <<253>>>>,
      <<<<195, 190>>, <<254>>>>, <<<<195, 191>>, <<255>>>>,
      <<<<195>>, <<210>>>>, <<<<195, 8240>>, <<201>>>>,
      <<<<195, 34>>, <<212>>>>, <<<<195, 353>>, <<218>>>>,
      <<<<195, 339>>, <<220>>>>, <<<<194, 191>>, <<191>>>>,
      <<<<194, 161>>, <<161>>>>, <<<<226, 8218, 172>>, <<8364>>>>,
      <<<<195, 8218>>, <<194>>>>, <<<<195, 402>>, <<195>>>>,
      <<<<195, 8222>>, <<196>>>>, <<<<195, 8230>>, <<197>>>>,
      <<<<195, 8224>>, <<198>>>>, <<<<195, 8225>>, <<199>>>>,
      <<<<195, 710>>, <<200>>>>, <<<<195, 352>>, <<202>>>>,
      <<<<195, 8249>>, <<203>>>>, <<<<195, 338>>, <<204>>>>,
      <<<<195, 381>>, <<206>>>>, <<<<195, 8226>>, <<213>>>>,
      <<<<195, 8211>>, <<214>>>>, <<<<195, 8212>>, <<215>>>>,
      <<<<195, 732>>, <<216>>>>, <<<<195, 8482>>, <<217>>>>,
      <<<<195, 8250>>, <<219>>>>, <<<<195, 382>>, <<222>>>>,
      <<<<195, 376>>, <<223>>>>, <<<<195, 165>>, <<229>>>>,
      <<<<195, 166>>, <<230>>>>, <<<<195, 172>>, <<236>>>>,
      <<<<195, 176>>, <<240>>>>, <<<<195, 178>>, <<242>>>>,
      <<<<195, 181>>, <<245>>>>, <<<<195, 183>>, <<247>>>>,
      <<<<195, 184>>, <<248>>>>>>

\* texto.replace(mal, bien): every occurrence, left to right, not overlapping
RECURSIVE Replace(_, _, _)
Replace(cadena, mal, bien) ==
    IF Len(cadena) < Len(mal) THEN cadena
    ELSE IF SubSeq(cadena, 1, Len(mal)) = mal
    THEN bien \o Replace(SubSeq(cadena, Len(mal) + 1, Len(cadena)), mal, bien)
    ELSE <<cadena[1]>> \o Replace(Tail(cadena), mal, bien)

\* for mal, bien in correcciones.items(): texto = texto.replace(mal, bien),
\* from the n-th pair on (the test of Len makes TLC compute each replacement
\* before it goes on to the next pair)
RECURSIVE CorregirDesde(_, _)
CorregirDesde(crudo, n) ==
    IF n > Len(correcciones) THEN crudo
    ELSE LET reemplazado == Replace(crudo, correcciones[n][1], correcciones[n][2])
         IN IF Len(reemplazado) >= 0 THEN CorregirDesde(reemplazado, n + 1)
            ELSE reemplazado
Corregir(crudo) == CorregirDesde(crudo, 1)

\* unicodedata.normalize('NFKC', texto) on the characters of Alfabeto: the
\* no-break space becomes a space, the other characters are their own
\* normal form (Alfabeto has no combining mark, so nothing composes)
NFKC(corregido) ==
    [k \in 1..Len(corregido) |-> IF corregido[k] = 160 THEN 32 ELSE corregido[k]]

\* re.sub(r'[\x00-\x1f\x7f-\x9f]', '', texto) and the removal of U+FFFD
EsControl(c) == c \in 0..31 \/ c \in 127..159 \/ c = 65533
SinControl(normal) == SelectSeq(normal, LAMBDA c : ~EsControl(c))

\* the characters \s matches in a str pattern
EsEspacio(c) ==
    c \in {9, 10, 11, 12, 13, 28, 29, 30, 31, 32, 133, 160, 5760, 8232, 8233,
           8239, 8287, 12288} \/ c \in 8192..8202

\* re.sub(r'\s+', ' ', texto): a run of whitespace becomes one space
RECURSIVE Colapsar(_)
Colapsar(visible) ==
    IF visible = <<>> THEN <<>>
    ELSE IF EsEspacio(visible[1])
    THEN IF Len(visible) >= 2 /\ EsEspacio(visible[2]) THEN Colapsar(Tail(visible))
         ELSE <<32>> \o Colapsar(Tail(visible))
    ELSE <<visible[1]>> \o Colapsar(Tail(visible))

\* str.strip()
RECURSIVE LStrip(_)
LStrip(izq) == IF izq # <<>> /\ EsEspacio(izq[1]) THEN LStrip(Tail(izq)) ELSE izq
RECURSIVE RStrip(_)
RStrip(der) ==
    IF der # <<>> /\ EsEspacio(der[Len(der)])
    THEN RStrip(SubSeq(der, 1, Len(der) - 1)) ELSE der
Strip(junto) == RStrip(LStrip(junto))

\* _limpiar_texto(texto)
_limpiar_texto(t) ==
    IF t = <<>> THEN <<>>
    ELSE Strip(Colapsar(SinControl(NFKC(Corregir(t)))))

(***************************************************************************)
(* _limpiar_texto as a state machine: a text over Alfabeto is cleaned, and *)
(* the result is cleaned again; pasadas counts the passes made.            *)
(***************************************************************************)
Alfabeto == {0, 9, 10, 32, 97, 160, 161, 194, 195}

RECURSIVE Textos(_)
Textos(n) ==
    IF n = 0 THEN {<<>>}
    ELSE Textos(n - 1) \cup {Append(t, c) : t \in {u \in Textos(n - 1) : Len(u) = n - 1},
                                            c \in Alfabeto}

InitTexto ==
    /\ texto \in Textos(MaxLen)
    /\ original = texto
    /\ pasadas = 0
    /\ url_inicio = <<>>
    /\ max_paginas = 0
    /\ to_visit = {}
    /\ visited = {}
    /\ results = <<>>
    /\ pc = "idle"
    /\ web = <<>>
    /\ traza = <<>>
    /\ RegInit
    /\ IngestInit
    /\ FiltroInit
    /\ HilosInit

\* texto = self._limpiar_texto(texto)
Limpiar ==
    /\ pasadas < MaxPasadas
    /\ texto' = _limpiar_texto(texto)
    /\ pasadas' = pasadas + 1
    /\ UNCHANGED original
    /\ UNCHANGED crawlVars
    /\ UNCHANGED regVars
    /\ UNCHANGED ingestVars
    /\ UNCHANGED filtroVars
    /\ UNCHANGED hilosVars

NextTexto == Limpiar

SpecTexto == InitTexto /\ [][NextTexto]_vars

(***************************************************************************)
(* _es_url_valida as a state machine: a URL of up to MaxRuta path tokens   *)
(* and a dominio_base, given as the crawler gives it (the bare host) or as *)
(* a URL of the host, are handed to the filter.                            *)
(***************************************************************************)
RutaTokens == {"/a", "/b", ".pdf", ".zip"}

RECURSIVE Rutas(_)
Rutas(n) ==
    IF n = 0 THEN {<<>>}
    ELSE Rutas(n - 1) \cup {Append(r, t) : r \in {q \in Rutas(n - 1) : Len(q) = n - 1},
                                           t \in RutaTokens}

\* a path starts with a slash piece: an extension right after the host would
\* be part of the host name
UrlsFiltro ==
    {<<"https", ":", "//", h>> \o r :
        h \in HostTokens,
        r \in {q \in Rutas(MaxRuta) : q = <<>> \/ q[1] \notin ExtensionTokens}}
BasesFiltro == {<<"h1">>, <<"https", ":", "//", "h1">>}

InitFiltro ==
    /\ \E u \in UrlsFiltro, b \in BasesFiltro :
         filtro = [url |-> u, dominio_base |-> b, hecho |-> FALSE, valida |-> FALSE]
    /\ url_inicio = <<>>
    /\ max_paginas = 0
    /\ to_visit = {}
    /\ visited = {}
    /\ results = <<>>
    /\ pc = "idle"
    /\ web = <<>>
    /\ traza = <<>>
    /\ RegInit
    /\ IngestInit
    /\ TextInit
    /\ HilosInit

\* self._es_url_valida(full_url, dominio_base)
EsUrlValida ==
    /\ ~filtro.hecho
    /\ filtro' = [filtro EXCEPT !.hecho = TRUE,
                                !.valida = _es_url_valida(filtro.url, filtro.dominio_base)]
    /\ UNCHANGED crawlVars
    /\ UNCHANGED regVars
    /\ UNCHANGED ingestVars
    /\ UNCHANGED textVars
    /\ UNCHANGED hilosVars

NextFiltro == EsUrlValida

SpecFiltro == InitFiltro /\ [][NextFiltro]_vars

(***************************************************************************)
(* The registry under threads: agregar_fuente and eliminar_fuente called   *)
(* from the threads of Hilos on one shared instance, step by step, with    *)
(* the files of _guardar_fuentes looked at write by write.  A file is a    *)
(* sequence of chunks; a name (fuentes.json, fuentes.json.tmp) refers to   *)
(* an inode and so does an open file object.  The process can crash at     *)
(* any step and start again from the durable file.                         *)
(***************************************************************************)
Trozo(f) == [tipo |-> "fuente", fuente |-> f]
Fin == [tipo |-> "fin", fuente |-> SinFuente]
Hueco == [tipo |-> "hueco", fuente |-> SinFuente]

\* json.dump(self.sources, f): one chunk for each source, then the closing
\* bracket
Volcado(S) == [n \in 1..(Len(S) + 1) |-> IF n <= Len(S) THEN Trozo(S[n]) ELSE Fin]

\* the file is a whole JSON document
Completo(contenido) ==
    /\ Len(contenido) >= 1
    /\ contenido[Len(contenido)] = Fin
    /\ \A n \in 1..(Len(contenido) - 1) : contenido[n].tipo = "fuente"

\* default sources of _cargar_fuentes
fuentes_por_defecto == <<Fuente(A, "Python")>>

\* _cargar_fuentes over the bytes of the file: json.load, and the default
\* sources when it raises
_cargar_fuentes(contenido) ==
    IF Completo(contenido)
    THEN [n \in 1..(Len(contenido) - 1) |-> contenido[n].fuente]
    ELSE fuentes_por_defecto

\* f.write(chunk) at offset n - 1 chunks: the file grows, with a hole if the
\* offset is past its end
EscribirEn(contenido, n, trozo) ==
    [m \in 1..(IF Len(contenido) > n THEN Len(contenido) ELSE n) |->
        IF m = n THEN trozo
        ELSE IF m <= Len(contenido) THEN contenido[m] ELSE Hueco]

\* the bytes of fuentes.json
Durable(fs) == fs.inodos[fs.fuentes]

HiloUrls == {A, D}
HiloOps == {"agregar_fuente", "eliminar_fuente"}
EnLlamada(t) == hilos[t].pc \notin {"idle", "out", "ausente"}

InitHilos ==
    /\ sources \in {<<>>, <<Fuente(A, "n1")>>}
    /\ sources_file = sources
    /\ archivos = [inodos |-> <<Volcado(sources)>>, tmp |-> 0, fuentes |-> 1]
    /\ hilos \in {[t \in Hilos |-> HiloLibre],
                  [t \in Hilos |-> IF t = 1 THEN HiloLibre
                                   ELSE [HiloLibre EXCEPT !.pc = "ausente"]]}
    /\ caidas = 0
    /\ indexados = <<>>
    /\ indexados_file = <<>>
    /\ now = 0
    /\ fallos = 0
    /\ ret = Ret("init", <<>>, TRUE, "")
    /\ url_inicio = <<>>
    /\ max_paginas = 0
    /\ to_visit = {}
    /\ visited = {}
    /\ results = <<>>
    /\ pc = "idle"
    /\ web = <<>>
    /\ traza = <<>>
    /\ IngestInit
    /\ TextInit
    /\ FiltroInit

\* what no step of a thread touches
HilosFrame ==
    /\ UNCHANGED <<indexados, indexados_file, now, fallos, ret>>
    /\ UNCHANGED crawlVars
    /\ UNCHANGED ingestVars
    /\ UNCHANGED textVars
    /\ UNCHANGED filtroVars

\* a thread enters agregar_fuente(url, "n1") or eliminar_fuente(url)
Llamar(t) ==
    /\ hilos[t].pc = "idle"
    /\ Len(sources) + Cardinality({u \in Hilos : EnLlamada(u)}) < MaxFuentes
    /\ \E op \in HiloOps, url \in HiloUrls :
         hilos' = [hilos EXCEPT ![t] = [HiloLibre EXCEPT !.pc = "buscar", !.op = op,
                                                        !.url = url, !.antes = sources]]
    /\ UNCHANGED <<sources, sources_file, archivos, caidas>>
    /\ HilosFrame

\* agregar_fuente: the URL is validated and looked for in self.sources;
\* eliminar_fuente: enumerate(self.sources) finds the index of the URL
Buscar(t) ==
    /\ hilos[t].pc = "buscar"
    /\ LET h == hilos[t]
           parsed_url == urlparse(h.url)
       IN hilos' = [hilos EXCEPT ![t] =
            IF h.op = "agregar_fuente"
            THEN IF parsed_url.scheme = <<>> \/ parsed_url.netloc = <<>> \/ HasUrl(sources, h.url)
                 THEN [h EXCEPT !.pc = "out", !.exito = FALSE]
                 ELSE [h EXCEPT !.pc = "mutar"]
            ELSE IF HasUrl(sources, h.url)
                 THEN [h EXCEPT !.pc = "mutar", !.i = FirstIndex(sources, h.url)]
                 ELSE [h EXCEPT !.pc = "out", !.exito = FALSE]]
    /\ UNCHANGED <<sources, sources_file, archivos, caidas>>
    /\ HilosFrame

\* self.sources.append(nueva_fuente) / self.sources.pop(i); pop raises
\* IndexError past the end of the list and the call returns its error
Mutar(t) ==
    /\ hilos[t].pc = "mutar"
    /\ LET h == hilos[t] IN
         IF h.op = "agregar_fuente"
         THEN /\ sources' = Append(sources, Fuente(h.url, "n1"))
              /\ hilos' = [hilos EXCEPT ![t] = [h EXCEPT !.pc = "open"]]
         ELSE IF h.i <= Len(sources)
         THEN /\ sources' = RemoveAt(sources, h.i)
              /\ hilos' = [hilos EXCEPT ![t] = [h EXCEPT !.pc = "open"]]
         ELSE /\ sources' = sources
              /\ hilos' = [hilos EXCEPT ![t] = [h EXCEPT !.pc = "out", !.exito = FALSE]]
    /\ UNCHANGED <<sources_file, archivos, caidas>>
    /\ HilosFrame

\* Mutant of Abrir: the registry is written straight into fuentes.json
\* (open(self.sources_file, 'w')), with no temporary file.
AbrirDirecto(t) ==
    /\ hilos[t].pc = "open"
    /\ archivos' = [archivos EXCEPT !.inodos[archivos.fuentes] = <<>>]
    /\ hilos' = [hilos EXCEPT ![t] = [@ EXCEPT !.pc = "write", !.fd = archivos.fuentes,
                                               !.k = 0]]
    /\ sources_file' = _cargar_fuentes(Durable(archivos'))
    /\ UNCHANGED <<sources, caidas>>
    /\ HilosFrame

\* open(temp_file, 'w'): the file of that name is truncated, or created
Abrir(t) ==
    /\ hilos[t].pc = "open"
    /\ IF archivos.tmp # 0
       THEN /\ archivos' = [archivos EXCEPT !.inodos[archivos.tmp] = <<>>]
            /\ hilos' = [hilos EXCEPT ![t] = [@ EXCEPT !.pc = "write", !.fd = archivos.tmp,
                                                       !.k = 0]]
       ELSE /\ archivos' = [archivos EXCEPT !.inodos = Append(@, <<>>),
                                            !.tmp = Len(archivos.inodos) + 1]
            /\ hilos' = [hilos EXCEPT ![t] = [@ EXCEPT !.pc = "write",
                                                       !.fd = Len(archivos.inodos) + 1,
                                                       !.k = 0]]
    /\ sources_file' = _cargar_fuentes(Durable(archivos'))
    /\ UNCHANGED <<sources, caidas>>
    /\ HilosFrame

\* json.dump: the next chunk of self.sources, as the list is now, goes to the
\* open file at the offset of this file object
Escribir(t) ==
    /\ hilos[t].pc = "write"
    /\ LET h == hilos[t]
           n == h.k + 1
           trozo == IF n <= Len(sources) THEN Trozo(sources[n]) ELSE Fin
       IN /\ archivos' = [archivos EXCEPT !.inodos[h.fd] = EscribirEn(@, n, trozo)]
          /\ hilos' = [hilos EXCEPT ![t] = [h EXCEPT !.k = n,
                                                     !.pc = IF trozo = Fin THEN "close"
                                                            ELSE "write"]]
    /\ sources_file' = _cargar_fuentes(Durable(archivos'))
    /\ UNCHANGED <<sources, caidas>>
    /\ HilosFrame

\* the end of the with block, then os.path.exists(temp_file)
Cerrar(t) ==
    /\ hilos[t].pc = "close"
    /\ hilos' = [hilos EXCEPT ![t] =
                   IF archivos.tmp # 0
                   THEN [@ EXCEPT !.fd = 0, !.pc = "replace"]
                   ELSE [@ EXCEPT !.fd = 0, !.pc = "out", !.exito = TRUE]]
    /\ UNCHANGED <<sources, sources_file, archivos, caidas>>
    /\ HilosFrame

\* os.replace(temp_file, self.sources_file); FileNotFoundError is caught and
\* logged by _guardar_fuentes.  The call then returns success.
Reemplazar(t) ==
    /\ hilos[t].pc = "replace"
    /\ archivos' = IF archivos.tmp # 0
                   THEN [archivos EXCEPT !.fuentes = archivos.tmp, !.tmp = 0]
                   ELSE archivos
    /\ hilos' = [hilos EXCEPT ![t] = [@ EXCEPT !.pc = "out", !.exito = TRUE]]
    /\ sources_file' = _cargar_fuentes(Durable(archivos'))
    /\ UNCHANGED <<sources, caidas>>
    /\ HilosFrame

\* the process dies at any step and is started again: open files are closed
\* as they are and self.sources is loaded from fuentes.json
Caida ==
    /\ caidas < MaxCaidas
    /\ caidas' = caidas + 1
    /\ hilos' = [t \in Hilos |-> IF hilos[t].pc = "ausente" THEN hilos[t] ELSE HiloLibre]
    /\ sources' = _cargar_fuentes(Durable(archivos))
    /\ UNCHANGED <<sources_file, archivos>>
    /\ HilosFrame

NextHilos ==
    \/ \E t \in Hilos : Llamar(t)
    \/ \E t \in Hilos : Buscar(t)
    \/ \E t \in Hilos : Mutar(t)
    \/ \E t \in Hilos : Abrir(t)
    \/ \E t \in Hilos : Escribir(t)
    \/ \E t \in Hilos : Cerrar(t)
    \/ \E t \in Hilos : Reemplazar(t)
    \/ Caida

SpecHilos == InitHilos /\ [][NextHilos]_vars

(***************************************************************************)
(* Properties of the crawl (SpecCrawl, SpecCrawlFair).                     *)
(***************************************************************************)
ResultUrls == {results[i].url : i \in 1..Len(results)}
SameHostHrefs == {B, C, <<"/c", "#f">>}

\* C1: a crawl with max_paginas = N > 0 returns a list of at most N pages,
\* whatever the site serves and whatever URL each pop takes.
C1_AtMostMaxPaginas ==
    (pc = "done" /\ max_paginas > 0) => Len(results) <= max_paginas

\* C1 witness: a crawl with N = 1 has returned N pages from a seed page that
\* links to further pages of its own host.
C1_Witness ==
    /\ pc = "done"
    /\ max_paginas = 1
    /\ Len(results) = 1
    /\ url_inicio = A
    /\ web[A].hrefs \cap SameHostHrefs # {}

\* The site of the scenario, as far as it has been served: every page served
\* was fetched successfully and has at least MinWords words, A links to B, C
\* and D, and no page links outside {A, B, C, D}.
ScenarioServed ==
    /\ A \in DOMAIN web
    /\ web[A].hrefs = {B, C, D}
    /\ \A u \in DOMAIN web :
         /\ web[u].ok /\ web[u].body /\ web[u].words >= MinWords
         /\ web[u].hrefs \subseteq {A, B, C, D}

\* C2 (as claimed): seed A links to B and C on its host and to D on another
\* host, all pages are fetched and have at least 20 words, max_paginas = 0:
\* the crawl returns exactly the pages A, B and C.
C2_ScenarioABC ==
    (pc = "done" /\ url_inicio = A /\ max_paginas = 0 /\ ScenarioServed)
        => ResultUrls = {A, B, C}

\* C3: every crawl eventually leaves the loop and returns.
C3_Terminates == <>(pc = "done")

\* C3 witness: the loop has run at least one pass and the crawl has returned.
C3_Witness == pc = "done" /\ visited # {} /\ to_visit = {}

\* C4: every page in the results was served with a body and with at least
\* MinWords words of main content; a page with fewer words, or without a
\* body, is never in the results.
C4_MinWordsInResults ==
    /\ \A i \in 1..Len(results) : results[i].words >= MinWords
    /\ \A u \in DOMAIN web :
         (~web[u].ok \/ ~web[u].body \/ web[u].words < MinWords)
            => u \notin ResultUrls

\* C4 witness: the crawl has visited a page of MinWords - 1 words and has
\* returned without it.
C4_Witness ==
    /\ pc = "done"
    /\ \E u \in visited :
         /\ web[u].ok /\ web[u].body /\ web[u].words = MinWords - 1
         /\ u \notin ResultUrls

\* C14: a pass of the loop that fetches a URL and gets no response (network
\* error, timeout, HTTP error status) marks the URL visited, leaves the
\* results as they were, stays in the loop and keeps every other URL of the
\* frontier; and the crawl returns only when the frontier is empty or the
\* page budget is filled.
C14_FetchFailureSkips ==
    /\ [][(DOMAIN web' # DOMAIN web
            /\ \E u \in DOMAIN web' \ DOMAIN web : ~web'[u].ok)
           => /\ (DOMAIN web' \ DOMAIN web) \subseteq visited'
              /\ results' = results
              /\ pc' = "loop"
              /\ to_visit' = to_visit \ (DOMAIN web' \ DOMAIN web)]_vars
    /\ [](pc = "done"
            => (to_visit = {} \/ (max_paginas > 0 /\ Len(results) >= max_paginas)))

\* C14 witness: the fetch of the seed has failed, the seed is visited, and
\* the crawl has returned, without an exception, an empty list.
C14_Witness ==
    /\ pc = "done"
    /\ url_inicio \in DOMAIN web /\ ~web[url_inicio].ok
    /\ url_inicio \in visited
    /\ results = <<>>

\* the pages served that extraer_pagina_individual turns into a result
Aceptada(u) ==
    u \in DOMAIN web /\ web[u].ok /\ web[u].body /\ web[u].words >= MinWords

\* the least set of URLs that holds S and the links _procesar_enlaces keeps
\* of every accepted page in it
RECURSIVE Alcanzables(_)
Alcanzables(S) ==
    LET T == S \cup UNION {_procesar_enlaces(u, web[u].hrefs, urlparse(url_inicio).netloc) :
                              u \in {v \in S : Aceptada(v)}}
    IN IF T = S THEN S ELSE Alcanzables(T)

\* C17: a crawl with max_paginas = 0 of a site that serves each URL one
\* page returns, whatever URL each pop takes, the accepted pages among the
\* URLs reachable from the seed: the set of result URLs is a function of the
\* site alone.
C17_OrderIndependent ==
    (pc = "done" /\ max_paginas = 0)
        => /\ visited = Alcanzables({url_inicio})
           /\ ResultUrls = {u \in Alcanzables({url_inicio}) : Aceptada(u)}

\* C17 witness: a crawl without budget has returned its seed, whose page
\* links to two more pages of its host.
C17_Witness ==
    /\ pc = "done" /\ max_paginas = 0
    /\ url_inicio = A /\ ResultUrls = {A}
    /\ {B, C} \subseteq web[A].hrefs

\* C18: a crawl whose seed is fetched, has at least 20 words and links to no
\* page of its own host returns exactly one result, the seed, for every
\* max_paginas >= 0.
C18_SinglePage ==
    (/\ pc = "done"
     /\ Aceptada(url_inicio)
     /\ \A h \in web[url_inicio].hrefs :
          urlparse(urljoin(url_inicio, SplitFragment(h))).netloc # urlparse(url_inicio).netloc)
        => /\ Len(results) = 1
           /\ results[1].url = url_inicio

\* C18 witness: the seed A, a page of 20 words that links only to another
\* host, has been returned alone by a crawl with the budget 1.
C18_Witness ==
    /\ pc = "done" /\ max_paginas = 1
    /\ url_inicio = A /\ web[A].hrefs = {D} /\ web[A].words = MinWords
    /\ Len(results) = 1 /\ results[1].url = A

\* C21 (as claimed): for every page the crawl has fetched, _procesar_enlaces
\* called with dominio_base = urlparse(url_inicio).netloc returns exactly
\* the absolute URLs, fragments removed, of the anchors whose host is the
\* host of the seed.
C21_SameHostLinks ==
    \A u \in DOMAIN web :
        web[u].ok =>
            _procesar_enlaces(u, web[u].hrefs, urlparse(url_inicio).netloc)
              = {l \in {urljoin(u, SplitFragment(h)) : h \in web[u].hrefs} :
                    urlparse(l).netloc = urlparse(url_inicio).netloc}

\* C23 (as claimed): between any two consecutive requests of a crawl there
\* is a sleep, whatever the outcome of the earlier request.
C23_SleepBetweenRequests ==
    \A i \in 1..(Len(traza) - 1) :
        ~(traza[i].tipo = "GET" /\ traza[i + 1].tipo = "GET")

\* C24: with max_paginas = N > 0, the pass that brings the result list to N
\* pages issues the GET of the extraction and no second GET of the page for
\* its links, no later step issues a request, and the loop condition is
\* false whatever the frontier holds.
C24_NoRequestAfterBudget ==
    /\ [][(max_paginas > 0 /\ Len(results') = max_paginas)
            => traza' \in {traza} \cup {traza \o <<Get(u), Sleep>> : u \in to_visit}]_vars
    /\ []((max_paginas > 0 /\ Len(results) = max_paginas)
            => \A frontera \in SUBSET {A, B, C, D} :
                  ~LoopCond([CrawlSt EXCEPT !.to_visit = frontera], max_paginas))

\* a crawl with a budget of one page has returned that page after one GET
C24_Witness ==
    /\ pc = "done"
    /\ max_paginas = 1
    /\ Len(results) = 1
    /\ traza = <<Get(url_inicio), Sleep>>

\* the passes of the loop that ran the extraction of url: its GETs that
\* open the trace or follow a sleep
Extracciones(url) ==
    {i \in 1..Len(traza) : traza[i] = Get(url) /\ (i = 1 \/ traza[i - 1] = Sleep)}

\* C25: whenever the loop condition is evaluated the frontier and the
\* visited set are disjoint; each URL is extracted at most once and no two
\* pages of the result list have the same URL.
C25_FrontierUnvisited ==
    /\ pc = "loop" => to_visit \cap visited = {}
    /\ \A u \in visited \cup to_visit : Cardinality(Extracciones(u)) <= 1
    /\ \A i, j \in 1..Len(results) : results[i].url = results[j].url => i = j

\* the loop condition is evaluated after a pass that extracted the seed
C25_Witness ==
    /\ pc = "loop"
    /\ visited = {url_inicio}
    /\ Cardinality(Extracciones(url_inicio)) = 1
    /\ ResultUrls = {url_inicio}

(***************************************************************************)
(* Properties of the registry and the index-record table (Spec).           *)
(***************************************************************************)
\* A step is a call of the method op exactly when it leaves ret as the
\* outcome of op and does not move the clock (every call overwrites ret, and
\* Tick alone changes now).
CallOf(op) == ret'.op = op /\ now' = now

\* C5: agregar_fuente with the URL of a source already in the registry
\* returns a failure saying the source already exists, leaves the list in
\* memory as it was and does not rewrite the registry file.
C5_DuplicateRejected ==
    [][(CallOf("agregar_fuente") /\ HasUrl(sources, ret'.url))
        => /\ ~ret'.exito
           /\ ret'.mensaje = "La fuente ya existe"
           /\ sources' = sources
           /\ sources_file' = sources_file]_vars

\* C5 witness: the last call was an agregar_fuente refused as a duplicate of
\* a source that is in the registry.
C5_Witness ==
    /\ ret.op = "agregar_fuente"
    /\ ~ret.exito
    /\ ret.mensaje = "La fuente ya existe"
    /\ HasUrl(sources, ret.url)

\* C6: agregar_fuente with a URL without a scheme, or without a network
\* location after the scheme, returns a failure, leaves the list in memory as
\* it was and does not write the registry file.
C6_MalformedRejected ==
    [][(CallOf("agregar_fuente") /\ ret'.url \in {NoScheme, NoHost, EmptyHost})
        => /\ ~ret'.exito
           /\ sources' = sources
           /\ sources_file' = sources_file]_vars

\* C6 witness: the last call was an agregar_fuente of a URL without a host,
\* refused as invalid, on a registry that holds a source.
C6_Witness ==
    /\ ret = Ret("agregar_fuente", NoHost, FALSE, "URL invalida")
    /\ Len(sources) > 0

\* C7: no two sources of the registry have the same URL.
C7_UniqueUrls ==
    \A i, j \in 1..Len(sources) : sources[i].url = sources[j].url => i = j

\* C7 witness: the registry holds two sources and the last call was an
\* actualizar_fuente that was given the URL of the other source.
C7_Witness ==
    /\ Len(sources) = 2
    /\ ret.op = "actualizar_fuente" /\ ret.exito /\ ret.url = A
    /\ HasUrl(sources, D)

\* C8 (as claimed): every key of indexados is the URL of a source that is in
\* the registry.
C8_IndexadosInRegistry ==
    \A u \in DOMAIN indexados : HasUrl(sources, u)

\* C9 (as claimed): once eliminar_fuente(url) has returned success, neither
\* indexados in memory nor the index-record file has an entry for url.
C9_DeleteRemovesRecord ==
    (ret.op = "eliminar_fuente" /\ ret.exito)
        => /\ ret.url \notin DOMAIN indexados
           /\ ret.url \notin DOMAIN indexados_file

\* C10: a successful indexar_fuente(url) leaves indexados with an entry for
\* url whose value is the time of this call, whether or not url had an entry
\* before, and with the entries of the other URLs as they were.
C10_ReindexOverwrites ==
    [][(CallOf("indexar_fuente") /\ ret'.exito)
        => /\ DOMAIN indexados' = DOMAIN indexados \cup {ret'.url}
           /\ indexados'[ret'.url] = now
           /\ \A u \in DOMAIN indexados \ {ret'.url} : indexados'[u] = indexados[u]]_vars

\* C10 witness: A has been indexed again at time 1 and holds that time, while
\* the entry of D still holds time 0.
C10_Witness ==
    /\ ret.op = "indexar_fuente" /\ ret.exito /\ ret.url = A
    /\ now = 1
    /\ A \in DOMAIN indexados /\ indexados[A] = 1
    /\ D \in DOMAIN indexados /\ indexados[D] = 0

\* C12: a call of actualizar_fuente(url, **kwargs), whatever kwargs holds,
\* leaves the length of the registry and every source other than the first
\* one with that URL as they were, and in that source changes no field
\* outside nombre, descripcion, categoria, estado, idioma (so not url, not
\* fecha_agregada) and adds no key outside that list.
C12_UpdateFrame ==
    [][CallOf("actualizar_fuente")
        => /\ Len(sources') = Len(sources)
           /\ \A j \in 1..Len(sources) :
                /\ (sources[j].url # ret'.url) => sources'[j] = sources[j]
                /\ DOMAIN sources'[j] \subseteq DOMAIN sources[j] \cup campos_permitidos
                /\ \A f \in DOMAIN sources[j] \ campos_permitidos :
                      sources'[j][f] = sources[j][f]]_vars

\* C12 witness: actualizar_fuente(A, nombre, url, fecha_agregada, visitas)
\* has succeeded on a registry of two sources: A has the new name, its own
\* URL and its first date, the other source has its first name.
C12_Witness ==
    /\ ret = Ret("actualizar_fuente", A, TRUE, "Fuente actualizada exitosamente")
    /\ Len(sources) = 2
    /\ \E i, j \in 1..2 :
         /\ sources[i].url = A /\ sources[i].nombre = "n2"
         /\ sources[i].fecha_agregada = "hoy"
         /\ sources[j].url = D /\ sources[j].nombre = "n1"

\* C16 (as claimed): when the write of the registry file has failed in
\* agregar_fuente, eliminar_fuente or actualizar_fuente, the registry in
\* memory holds the mutation and the outcome returned is not the plain
\* success outcome of the method.
C16_DurabilityReported ==
    (/\ ret.op \in {"agregar_fuente", "eliminar_fuente", "actualizar_fuente"}
     /\ sources_file # sources)
        => ~(/\ ret.exito
             /\ ret.mensaje \in {"Fuente agregada exitosamente",
                                 "Fuente eliminada exitosamente",
                                 "Fuente actualizada exitosamente"})

(***************************************************************************)
(* Properties of indexing and of the collection (SpecIngest, SpecLotes).   *)
(***************************************************************************)
\* C11 (as claimed): the identifier submitted for a page depends on its URL
\* alone, in every ingest call of every process run, so the collection never
\* holds two identifiers for one URL.
C11_OneIdPerUrl ==
    \A e1, e2 \in collection : e1.url = e2.url => e1.id = e2.id

\* C13: a call of indexar_fuente(url, max_paginas) returns success exactly
\* when its crawl returned at least one page, and then indexados[url] is the
\* time of the call; when the crawl returned no page it returns a failure
\* with a message, makes no call of the collection's add, and leaves
\* indexados and the index-record file as they were.
C13_IndexOutcome ==
    [][(CallOf("indexar_fuente") /\ todas'.estado = todas.estado)
        => /\ ret'.exito <=> (results' # <<>>)
           /\ ret'.exito => /\ ret'.url \in DOMAIN indexados'
                            /\ indexados'[ret'.url] = now
           /\ ~ret'.exito => /\ ret'.mensaje # ""
                             /\ Len(ingesta'.calls) = 0
                             /\ indexados' = indexados
                             /\ indexados_file' = indexados_file]_vars

\* C13 witness: indexar_fuente of a URL indexed before has failed on a crawl
\* without pages, at a time later than 0; the collection and the table hold
\* what the earlier call left.
C13_Witness ==
    /\ ret.op = "indexar_fuente" /\ ~ret.exito
    /\ results = <<>>
    /\ ingesta = SinIngesta
    /\ now > 0
    /\ ret.url \in DOMAIN indexados /\ indexados[ret.url] = now
    /\ collection # {}

\* C15: whichever batches the collection's add fails for, a call of
\* agregar_a_base_vectorial(documentos) calls add once per batch of 100
\* consecutive documents (the last batch holding the rest), in the order of
\* the list, and returns without an exception.
C15_EveryBatchAdded ==
    LET docs == ingesta.documentos
        calls == ingesta.calls
    IN /\ ~ingesta.excepcion
       /\ (Len(calls) - 1) * batch_size < Len(docs) \/ Len(docs) = 0
       /\ Len(docs) <= Len(calls) * batch_size
       /\ \A k \in 1..Len(calls) :
            /\ Len(calls[k].ids) =
                 (IF k < Len(calls) THEN batch_size
                  ELSE Len(docs) - (Len(calls) - 1) * batch_size)
            /\ \A j \in 1..Len(calls[k].ids) :
                 /\ calls[k].metadatas[j].url = docs[(k - 1) * batch_size + j].url
                 /\ calls[k].ids[j] = doc_id(docs[(k - 1) * batch_size + j].url, hash_seed)

\* C15 witness: a list of more than two batches has been ingested, the add
\* of the first and of the last batch failed, the add of the second did not.
C15_Witness ==
    /\ Len(ingesta.documentos) > 2 * batch_size
    /\ Len(ingesta.calls) = 3
    /\ ~ingesta.calls[1].ok /\ ingesta.calls[2].ok /\ ~ingesta.calls[3].ok
    /\ Cardinality(collection) >= batch_size

\* C19 (as claimed): while indexar_todas_fuentes(N) runs, the crawl of each
\* active source is made with the page budget N (0 being no limit), and for
\* N > 0 it returns at most N documents.
C19_BudgetPerSource ==
    (todas.estado = "loop" /\ Len(todas.pendientes) < todas.total_fuentes)
        => /\ max_paginas = todas.N
           /\ todas.N > 0 => Len(results) <= todas.N

\* the documents of the calls of the collection's add that returned
RECURSIVE Aceptados(_)
Aceptados(calls) ==
    IF calls = <<>> THEN 0
    ELSE (IF Head(calls).ok THEN Len(Head(calls).ids) ELSE 0) + Aceptados(Tail(calls))

\* C29 (as claimed): when indexar_fuente has returned success, its
\* documentos_indexados is the number of documents the collection's add
\* accepted in that call, and at least one batch was committed.
C29_CountAccepted ==
    (ret.op = "indexar_fuente" /\ ret.exito)
        => /\ ret.documentos_indexados = Aceptados(ingesta.calls)
           /\ \E k \in 1..Len(ingesta.calls) : ingesta.calls[k].ok

(***************************************************************************)
(* Properties of the registry under threads and crashes (SpecHilos).       *)
(***************************************************************************)
UnSoloEscritor == hilos[2].pc = "ausente"

\* C26: with a single writer, crashes included, fuentes.json is at every
\* step a whole document, and it is the registry as it is in memory or, while
\* a call is under way, as it was when the call began.
C26_DurableSnapshot ==
    UnSoloEscritor =>
        /\ Completo(Durable(archivos))
        /\ \/ Durable(archivos) = Volcado(sources)
           \/ EnLlamada(1) /\ Durable(archivos) = Volcado(hilos[1].antes)

\* the single writer crashed while writing: the temporary file is left cut
\* short and the process has started again
C26_Witness ==
    /\ UnSoloEscritor
    /\ caidas = 1
    /\ hilos[1].pc = "idle"
    /\ archivos.tmp # 0
    /\ Len(archivos.inodos[archivos.tmp]) >= 1
    /\ ~Completo(archivos.inodos[archivos.tmp])

\* C27 (as claimed): with two threads mutating the registry, fuentes.json is
\* a whole document whenever it is read, and once both calls have returned
\* it is the registry with both mutations.
C27_NoInterleaving ==
    (~UnSoloEscritor /\ caidas = 0) =>
        /\ Completo(Durable(archivos))
        /\ (\A t \in Hilos : hilos[t].pc = "out")
              => Durable(archivos) = Volcado(sources)

\* C28 (as claimed): of two concurrent agregar_fuente calls with the same
\* URL, new to the registry, at most one returns success and the registry
\* ends with one source of that URL.
C28_OneWinner ==
    (/\ caidas = 0
     /\ \A t \in Hilos : hilos[t].pc = "out" /\ hilos[t].op = "agregar_fuente"
     /\ hilos[1].url = hilos[2].url
     /\ \A t \in Hilos : ~HasUrl(hilos[t].antes, hilos[t].url))
        => /\ ~(hilos[1].exito /\ hilos[2].exito)
           /\ Cardinality({n \in 1..Len(sources) : sources[n].url = hilos[1].url}) = 1

(***************************************************************************)
(* Properties of the link filter (SpecFiltro).                             *)
(***************************************************************************)
\* C22 (as claimed): a URL that gets past the host comparison of the filter
\* is rejected exactly when its path ends in one of the listed extensions;
\* one that has such a string elsewhere is kept.
C22_ExtensionAtEnd ==
    (filtro.hecho /\ urlparse(filtro.url).netloc = urlparse(filtro.dominio_base).netloc)
        => (filtro.valida <=> filtro.url[Len(filtro.url)] \notin ExtensionTokens)

(***************************************************************************)
(* Properties of _limpiar_texto (SpecTexto).                               *)
(***************************************************************************)
\* C20 (as claimed): _limpiar_texto is idempotent: a text that has been
\* cleaned is left as it is by another cleaning.
C20_Idempotent ==
    pasadas >= 1 => _limpiar_texto(texto) = texto

\* C30 (as claimed): on a text of letters and whitespace, _limpiar_texto
\* returns the text with every maximal run of whitespace, newlines and tabs
\* included, replaced by one space and the ends trimmed.
C30_WhitespaceCollapsed ==
    (pasadas = 1 /\ \A n \in 1..Len(original) : original[n] = 97 \/ EsEspacio(original[n]))
        => texto = Strip(Colapsar(original))

====
